---------------------------- MODULE Spec2Model ----------------------------
(***************************************************************************)
(* A model of DDRelocator: the residual evaluator (try_solution), the      *)
(* Solution class and the two search drivers (gridsearch +                 *)
(* find_best_solution of ddrelocator.py, find_solution of locator.py).     *)
(*                                                                         *)
(* Numbers.  The program computes in double precision; the model computes  *)
(* in exact arithmetic.  A computed real is one of                         *)
(*     <<"unset">>        the attribute does not exist on the object       *)
(*     <<"nan">>          NaN                                              *)
(*     <<"q", n, d>>      the rational n/d, d > 0, in lowest terms         *)
(*     <<"sqrt", n, d>>   the square root of the rational n/d >= 0         *)
(* so that equality and order of misfits are those of the real numbers.    *)
(* Angles (latitude, longitude, distance) are integers in hundredths of a  *)
(* degree in a small region at the equator, depths are whole kilometres,   *)
(* cylindrical offsets are whole kilometres given in metres, azimuths are  *)
(* multiples of 90 degrees.                                                *)
(***************************************************************************)
EXTENDS Integers, Sequences, FiniteSets, TLC

(***************************************************************************)
(* Bounds of the model.                                                    *)
(***************************************************************************)
MaxObs == 2
MaxCalls == 3
MaxWorkers == 2

(***************************************************************************)
(* Program constants.                                                      *)
(***************************************************************************)
MetrePerKm == 1000

VARIABLES
    api,        \* which module's classes the session uses: "locator" / "ddrelocator"
    master,     \* the master Event
    obslist,    \* the list of Obs objects
    sol,        \* the caller's Solution object (headers.Solution)
    event,      \* the Event last returned by Solution.to_event
    solutions,  \* ddrelocator.gridsearch: the list of Solutions built so far
    best,       \* ddrelocator.find_best_solution: the Solution returned
    Jout,       \* find_solution: the misfit array, flattened in C order
    sweep,      \* the sweep in progress or last finished: its arguments
    evals,      \* the parameter triples try_solution was called with in the sweep
    pc,         \* "idle", or the search driver that is running
    err,        \* the exception the last finished call raised, or "none"
    lastop,     \* the last finished call
    ncalls,     \* calls made by the session so far
    pool,       \* find_solution with workers: the worker processes and their memory
    file        \* the observation file dump_obslist wrote

vars == <<api, master, obslist, sol, event, solutions, best, Jout, sweep,
          evals, pc, err, lastop, ncalls, pool, file>>

-----------------------------------------------------------------------------
(***************************************************************************)
(* Exact arithmetic.                                                       *)
(***************************************************************************)
\* The value e, computed once where it is defined.
Eval(e) == CHOOSE y \in {e} : TRUE

\* F(e), with e computed once.
Bind(e, F(_)) == CHOOSE y \in {F(x) : x \in {e}} : TRUE

Unset == <<"unset">>
NaN == <<"nan">>

Abs(a) == IF a < 0 THEN -a ELSE a

RECURSIVE Gcd(_, _)
Gcd(a, b) == IF b = 0 THEN a ELSE Gcd(b, a % b)

\* The rational n/d (d # 0) in lowest terms with a positive denominator.
Q(n, d) ==
    LET g == Gcd(Abs(n), Abs(d))
        s == IF d < 0 THEN -1 ELSE 1
    IN  <<"q", (s * n) \div g, (s * d) \div g>>

QInt(i) == <<"q", i, 1>>

IsNaN(x) == x = NaN
IsSet(x) == x # Unset

QAdd(x, y) == IF IsNaN(x) \/ IsNaN(y) THEN NaN
              ELSE Q(x[2] * y[3] + y[2] * x[3], x[3] * y[3])
\* y - x: the subtraction with its operands exchanged.
QSub_exchanged(x, y) == IF IsNaN(x) \/ IsNaN(y) THEN NaN
                        ELSE Q(y[2] * x[3] - x[2] * y[3], x[3] * y[3])
QSub(x, y) == IF IsNaN(x) \/ IsNaN(y) THEN NaN
              ELSE Q(x[2] * y[3] - y[2] * x[3], x[3] * y[3])
QMul(x, y) == IF IsNaN(x) \/ IsNaN(y) THEN NaN
              ELSE Q(x[2] * y[2], x[3] * y[3])
\* x / i for an integer i # 0
QDivInt(x, i) == IF IsNaN(x) THEN NaN ELSE Q(x[2], x[3] * i)

\* IEEE comparison: every comparison with NaN is false.
QLess(x, y) == ~IsNaN(x) /\ ~IsNaN(y) /\ x[2] * y[3] < y[2] * x[3]
QLeq(x, y) == ~IsNaN(x) /\ ~IsNaN(y) /\ x[2] * y[3] <= y[2] * x[3]

RECURSIVE QSum(_)
QSum(s) == IF s = <<>> THEN QInt(0) ELSE QAdd(Head(s), QSum(Tail(s)))

RECURSIVE ISum(_)
ISum(s) == IF s = <<>> THEN 0 ELSE Head(s) + ISum(Tail(s))

\* The integer part of the square root of n >= 0.
ISqrt(n) == CHOOSE r \in 0..n : r * r <= n /\ (r + 1) * (r + 1) > n

\* a / b rounded to the nearest integer (b > 0).
RoundDiv(a, b) == IF a >= 0 THEN (2 * a + b) \div (2 * b)
                  ELSE -((2 * (-a) + b) \div (2 * b))

\* cos and sin of a multiple of 90 degrees.
CosDeg(a) == CASE a % 360 = 0 -> 1 [] a % 360 = 180 -> -1 [] OTHER -> 0
SinDeg(a) == CASE a % 360 = 90 -> 1 [] a % 360 = 270 -> -1 [] OTHER -> 0

\* numpy.sqrt of a rational: NaN for a negative argument (a RuntimeWarning, no error).
np_sqrt(x) == IF IsNaN(x) \/ x[2] < 0 THEN NaN ELSE <<"sqrt", x[2], x[3]>>

-----------------------------------------------------------------------------
(***************************************************************************)
(* Geodesy.                                                                *)
(***************************************************************************)
\* obspy's kilometers2degrees: km / (2 pi 6371 / 360), in hundredths of a degree.
kilometers2degrees(km) == RoundDiv(km * 100000, 111195)

\* helpers.distaz(...)[0] and the same two calls inlined in ddrelocator.try_solution:
\* the distance in hundredths of a degree, its fraction cut.
distaz(lat1, lon1, lat2, lon2) ==
    ISqrt((lat2 - lat1) * (lat2 - lat1) + (lon2 - lon1) * (lon2 - lon1))

\* obspy's gps2dist_azimuth, called by distaz and by ddrelocator.try_solution,
\* raises ValueError for a first point whose latitude is beyond 90 degrees.
distaz_raises(lat1) == lat1 > 9000 \/ lat1 < -9000

-----------------------------------------------------------------------------
(***************************************************************************)
(* Events, observations, solutions.                                        *)
(***************************************************************************)
\* headers.Event.__init__
Event(origin, latitude, longitude, depth, magnitude) ==
    [origin |-> origin, latitude |-> latitude, longitude |-> longitude,
     depth |-> depth, magnitude |-> magnitude]

NoEvent == Event(Unset, 0, 0, 0, 0)
Master == Event(QInt(100), 10, 20, 5, 4)
Slave == Event(QInt(200), 11, 19, 6, 3)

\* headers.Obs.__init__ (ddrelocator.Obs.__init__ names the last field use): dt_pre
\* and residual are attributes the constructor does not create.
Obs(station, latitude, longitude, distance, azimuth, phase, time, dtdd, dtdh, dt, weight) ==
    [station |-> station, latitude |-> latitude, longitude |-> longitude,
     distance |-> distance, azimuth |-> azimuth, phase |-> phase, time |-> time,
     dtdd |-> dtdd, dtdh |-> dtdh, dt |-> dt, weight |-> weight,
     dt_pre |-> Unset, residual |-> Unset]

\* The observation of station i as examples/ex1/prepare_obs.py builds it: the
\* station lies i + 2 hundredths of a degree from the master at azimuth
\* 90 (i - 1); distance and azimuth are those from the master.
StationObs(i, dt, weight) ==
    LET az == (90 * (i - 1)) % 360
        lat == Master.latitude + (i + 2) * CosDeg(az)
        lon == Master.longitude + (i + 2) * SinDeg(az)
    IN  Obs(i, lat, lon, distaz(Master.latitude, Master.longitude, lat, lon),
            az, "p", 10 + i, i + 1, -i, dt, weight)

DtValues == {0, 1}
Weights == {-1, 0, 1, 2}
UseFlags == {0, 1}

ObsLists(ws) ==
    UNION {{[i \in 1..n |-> StationObs(i, d[i], w[i])] :
              d \in [1..n -> DtValues], w \in [1..n -> ws]} : n \in 0..MaxObs}

\* A number written with float_format="%.6f" and parsed again: the rational x
\* rounded to six decimals.
float_format(x) ==
    IF IsNaN(x) THEN NaN ELSE Q(RoundDiv(x[2] * 1000000, x[3]), 1000000)

\* The same for a field the model keeps as an integer.
float_format_int(i) == float_format(QInt(i))[2] \div float_format(QInt(i))[3]

\* vars(obs): the attributes of an observation in the order they were first
\* assigned, and their values as the file holds them.
obs_columns(o) ==
    <<"station", "latitude", "longitude", "distance", "azimuth", "phase", "time",
      "dtdd", "dtdh", "dt", "weight">>
       \o (IF o.dt_pre # Unset THEN <<"dt_pre">> ELSE <<>>)
       \o (IF o.residual # Unset THEN <<"residual">> ELSE <<>>)
obs_row(o) ==
    <<o.station, float_format_int(o.latitude), float_format_int(o.longitude),
      float_format_int(o.distance), float_format_int(o.azimuth), o.phase,
      float_format_int(o.time), float_format_int(o.dtdd), float_format_int(o.dtdh),
      float_format_int(o.dt), float_format_int(o.weight)>>
       \o (IF o.dt_pre # Unset THEN <<float_format(o.dt_pre)>> ELSE <<>>)
       \o (IF o.residual # Unset THEN <<float_format(o.residual)>> ELSE <<>>)

\* helpers.dump_obslist(obslist, filename): one column per attribute of the
\* observations, one row per observation.
dump_obslist(obs) ==
    [exists |-> TRUE,
     header |-> IF obs = <<>> THEN <<>> ELSE obs_columns(obs[1]),
     rows |-> Eval([i \in 1..Len(obs) |-> obs_row(obs[i])])]

\* helpers.read_obslist(filename): Obs(*row) for every row of the file; the
\* constructor takes eleven values and raises TypeError when given more.
read_obslist(f) ==
    IF \E i \in 1..Len(f.rows) : Len(f.rows[i]) > 11
    THEN [err |-> "TypeError", obslist |-> <<>>]
    ELSE [err |-> "none",
          obslist |-> Eval([i \in 1..Len(f.rows) |->
                              Obs(f.rows[i][1], f.rows[i][2], f.rows[i][3],
                                  f.rows[i][4], f.rows[i][5], f.rows[i][6],
                                  f.rows[i][7], f.rows[i][8], f.rows[i][9],
                                  f.rows[i][10], f.rows[i][11])])]

SolTypes == {"geographic", "cylindrical"}
BadType == "spherical"

NoSol == [type |-> "none", p |-> <<0, 0, 0>>, tmean |-> Unset, misfit |-> Unset]

\* headers.Solution.__init__ without its check of the type.
Solution_unchecked(params, type) ==
    [ok |-> TRUE,
     sol |-> [type |-> type, p |-> params, tmean |-> Unset, misfit |-> Unset]]

\* headers.Solution.__init__: p is (dlat, dlon, ddepth) for "geographic" and
\* (ddist, az, ddepth) for "cylindrical"; any other type raises ValueError.
Solution(params, type) ==
    IF type \in {"geographic", "cylindrical"}
    THEN [ok |-> TRUE,
          sol |-> [type |-> type, p |-> params, tmean |-> Unset, misfit |-> Unset]]
    ELSE [ok |-> FALSE, sol |-> NoSol]

-----------------------------------------------------------------------------
(***************************************************************************)
(* The residual evaluator of locator.py.                                   *)
(***************************************************************************)
\* numpy.average that ignores its weights (the plain mean).
np_average_unweighted(values, weights) ==
    IF Len(values) = 0
    THEN [ok |-> FALSE, value |-> NaN]
    ELSE [ok |-> TRUE, value |-> QDivInt(QSum(values), Len(values))]

\* numpy.average(values, weights=weights): sum(values * weights) / sum(weights);
\* raises ZeroDivisionError when the weights sum to zero (an empty list too).
np_average(values, weights) ==
    LET scl == ISum(weights)
    IN  IF scl = 0
        THEN [ok |-> FALSE, value |-> NaN]
        ELSE [ok |-> TRUE,
              value |-> QDivInt(QSum(Eval([i \in 1..Len(values) |->
                                             QMul(values[i], QInt(weights[i]))])), scl)]

\* numpy.mean of a list: NaN (and a RuntimeWarning, no exception) for an empty list.
np_mean(values) ==
    IF Len(values) = 0 THEN NaN ELSE QDivInt(QSum(values), Len(values))

\* The predicted time for a geographic Solution with the distance taken from the
\* master's location instead of the trial location.
dt_pre_geographic_master(m, s, obs) ==
    LET distance == distaz(m.latitude, m.longitude, obs.latitude, obs.longitude)
    IN  QInt(obs.dtdd * (distance - obs.distance) + obs.dtdh * s.p[3])

\* locator.try_solution, lines 26-33: the predicted time for a geographic Solution.
dt_pre_geographic(m, s, obs) ==
    LET latitude == m.latitude + s.p[1]
        longitude == m.longitude + s.p[2]
        distance == distaz(latitude, longitude, obs.latitude, obs.longitude)
    IN  QInt(obs.dtdd * (distance - obs.distance) + obs.dtdh * s.p[3])

\* The cylindrical prediction with ddepth taken in metres.
dt_pre_cylindrical_depth_metres(s, obs) ==
    LET ddist == s.p[1] \div MetrePerKm
    IN  QInt(obs.dtdd * kilometers2degrees(-ddist * CosDeg(s.p[2] - obs.azimuth))
             + obs.dtdh * s.p[3])

\* The cylindrical prediction with the sign of the distance change reversed.
dt_pre_cylindrical_away(s, obs) ==
    LET ddist == s.p[1] \div MetrePerKm
        ddepth == s.p[3] \div MetrePerKm
    IN  QInt(obs.dtdd * kilometers2degrees(ddist * CosDeg(s.p[2] - obs.azimuth))
             + obs.dtdh * ddepth)

\* locator.try_solution, lines 34-42: the predicted time for a cylindrical Solution.
dt_pre_cylindrical(s, obs) ==
    LET ddist == s.p[1] \div MetrePerKm
        ddepth == s.p[3] \div MetrePerKm
    IN  QInt(obs.dtdd * kilometers2degrees(-ddist * CosDeg(s.p[2] - obs.azimuth))
             + obs.dtdh * ddepth)

\* locator.try_solution, lines 26-42, for a geographic Solution also storing the
\* distance from the trial location as obs.distance.
predict_updates_distance(m, obs, s) ==
    CASE s.type = "geographic" ->
           Eval([i \in 1..Len(obs) |->
                   [obs[i] EXCEPT
                      !.dt_pre = dt_pre_geographic(m, s, obs[i]),
                      !.distance = distaz(m.latitude + s.p[1], m.longitude + s.p[2],
                                          obs[i].latitude, obs[i].longitude)]])
      [] s.type = "cylindrical" ->
           Eval([i \in 1..Len(obs) |->
                   [obs[i] EXCEPT !.dt_pre = dt_pre_cylindrical(s, obs[i])]])
      [] OTHER -> obs

\* locator.try_solution, lines 26-42, computing dt_pre only for the observations
\* that have none yet.
predict_stale(m, obs, s) ==
    CASE s.type = "geographic" ->
           Eval([i \in 1..Len(obs) |->
                   IF obs[i].dt_pre # Unset THEN obs[i]
                   ELSE [obs[i] EXCEPT !.dt_pre = dt_pre_geographic(m, s, obs[i])]])
      [] s.type = "cylindrical" ->
           Eval([i \in 1..Len(obs) |->
                   IF obs[i].dt_pre # Unset THEN obs[i]
                   ELSE [obs[i] EXCEPT !.dt_pre = dt_pre_cylindrical(s, obs[i])]])
      [] OTHER -> obs

\* locator.try_solution, lines 26-42: dt_pre of every observation; a Solution of
\* another type takes neither branch and leaves dt_pre as it is.
predict(m, obs, s) ==
    CASE s.type = "geographic" ->
           Eval([i \in 1..Len(obs) |->
                   [obs[i] EXCEPT !.dt_pre = dt_pre_geographic(m, s, obs[i])]])
      [] s.type = "cylindrical" ->
           Eval([i \in 1..Len(obs) |->
                   [obs[i] EXCEPT !.dt_pre = dt_pre_cylindrical(s, obs[i])]])
      [] OTHER -> obs

\* The first observation that has no dt_pre attribute, or 0.
FirstWithout(obs) ==
    IF \E i \in 1..Len(obs) : obs[i].dt_pre = Unset
    THEN CHOOSE i \in 1..Len(obs) :
             obs[i].dt_pre = Unset /\ \A j \in 1..(i - 1) : obs[j].dt_pre # Unset
    ELSE 0

\* locator.try_solution with the misfit taken over the residuals themselves, tmean
\* not subtracted.
try_solution_raw_rms(m, obs, s, keep_residual) ==
    LET pred == predict(m, obs, s)
        bad == FirstWithout(pred)
        \* lines 45-46
        res == Eval([i \in 1..Len(pred) |->
                       IF bad = 0 \/ i < bad
                       THEN [pred[i] EXCEPT
                               !.residual = QSub(QInt(pred[i].dt), pred[i].dt_pre)]
                       ELSE pred[i]])
        residuals == Eval([i \in 1..Len(res) |-> res[i].residual])
        weights == Eval([i \in 1..Len(res) |-> res[i].weight])
        \* line 52
        avg == Eval(IF bad = 0 THEN np_average(residuals, weights)
                    ELSE [ok |-> FALSE, value |-> NaN])
        tmean == avg.value
        \* line 53: the weights sum to a nonzero value here
        msq == np_average(Eval([i \in 1..Len(res) |->
                                  QMul(residuals[i], residuals[i])]), weights)
    IN  IF bad # 0
        THEN [obslist |-> res, sol |-> s, err |-> "AttributeError"]
        ELSE IF ~avg.ok
        THEN [obslist |-> res, sol |-> s, err |-> "ZeroDivisionError"]
        ELSE [obslist |->
                IF keep_residual
                THEN [i \in 1..Len(res) |->
                        [res[i] EXCEPT !.residual = QSub(res[i].residual, tmean)]]
                ELSE [i \in 1..Len(res) |->
                        [res[i] EXCEPT !.residual = Unset, !.dt_pre = Unset]],
              sol |-> [s EXCEPT !.tmean = tmean, !.misfit = np_sqrt(msq.value)],
              err |-> "none"]

\* locator.try_solution(master, obslist, sol, keep_residual): the observation
\* list and the Solution as the call leaves them, and the exception it raises.
try_solution(m, obs, s, keep_residual) ==
    \* line 32, for the first observation
    IF s.type = "geographic" /\ Len(obs) > 0 /\ distaz_raises(m.latitude + s.p[1])
    THEN [obslist |-> obs, sol |-> s, err |-> "ValueError"]
    ELSE
    LET pred == predict(m, obs, s)
        bad == FirstWithout(pred)
        \* lines 45-46
        res == Eval([i \in 1..Len(pred) |->
                       IF bad = 0 \/ i < bad
                       THEN [pred[i] EXCEPT
                               !.residual = QSub(QInt(pred[i].dt), pred[i].dt_pre)]
                       ELSE pred[i]])
        residuals == Eval([i \in 1..Len(res) |-> res[i].residual])
        weights == Eval([i \in 1..Len(res) |-> res[i].weight])
        \* line 52
        avg == Eval(IF bad = 0 THEN np_average(residuals, weights)
                    ELSE [ok |-> FALSE, value |-> NaN])
        tmean == avg.value
        \* line 53: the weights sum to a nonzero value here
        msq == np_average(Eval([i \in 1..Len(res) |->
                                  QMul(QSub(residuals[i], tmean),
                                       QSub(residuals[i], tmean))]), weights)
    IN  IF bad # 0
        THEN [obslist |-> res, sol |-> s, err |-> "AttributeError"]
        ELSE IF ~avg.ok
        THEN [obslist |-> res, sol |-> s, err |-> "ZeroDivisionError"]
        ELSE [obslist |->
                IF keep_residual
                THEN [i \in 1..Len(res) |->
                        [res[i] EXCEPT !.residual = QSub(res[i].residual, tmean)]]
                ELSE [i \in 1..Len(res) |->
                        [res[i] EXCEPT !.residual = Unset, !.dt_pre = Unset]],
              sol |-> [s EXCEPT !.tmean = tmean, !.misfit = np_sqrt(msq.value)],
              err |-> "none"]

\* Solution.to_event that always takes the master's origin time.
to_event_master_origin(s, m, slave) ==
    IF s.tmean = Unset
    THEN [ok |-> FALSE, event |-> NoEvent]
    ELSE
    LET origin == QAdd(m.origin, s.tmean)
        magnitude == IF slave = NoEvent THEN m.magnitude ELSE slave.magnitude
    IN  IF s.type = "geographic"
        THEN [ok |-> TRUE,
              event |-> Event(origin, m.latitude + s.p[1], m.longitude + s.p[2],
                              m.depth + s.p[3], magnitude)]
        ELSE
        LET ddist == s.p[1] \div MetrePerKm
        IN  [ok |-> TRUE,
             event |-> Event(origin,
                             m.latitude + kilometers2degrees(ddist * CosDeg(s.p[2])),
                             m.longitude + kilometers2degrees(ddist * SinDeg(s.p[2])),
                             m.depth + s.p[3] \div MetrePerKm, magnitude)]

\* Solution.to_event that converts the depth offset of a geographic Solution
\* from metres, as the cylindrical branch does.
to_event_depth_metres(s, m, slave) ==
    IF s.tmean = Unset
    THEN [ok |-> FALSE, event |-> NoEvent]
    ELSE
    LET origin == QAdd(IF slave = NoEvent THEN m.origin ELSE slave.origin, s.tmean)
        magnitude == IF slave = NoEvent THEN m.magnitude ELSE slave.magnitude
        ddist == s.p[1] \div MetrePerKm
    IN  IF s.type = "geographic"
        THEN [ok |-> TRUE,
              event |-> Event(origin, m.latitude + s.p[1], m.longitude + s.p[2],
                              m.depth + s.p[3] \div MetrePerKm, magnitude)]
        ELSE [ok |-> TRUE,
              event |-> Event(origin,
                              m.latitude + kilometers2degrees(ddist * CosDeg(s.p[2])),
                              m.longitude + kilometers2degrees(ddist * SinDeg(s.p[2])),
                              m.depth + s.p[3] \div MetrePerKm, magnitude)]

\* headers.Solution.to_event(master, slave): slave is NoEvent for None.  Reading
\* self.tmean of a Solution never evaluated raises AttributeError.
to_event(s, m, slave) ==
    IF s.tmean = Unset
    THEN [ok |-> FALSE, event |-> NoEvent]
    ELSE
    LET origin == QAdd(IF slave = NoEvent THEN m.origin ELSE slave.origin, s.tmean)
        magnitude == IF slave = NoEvent THEN m.magnitude ELSE slave.magnitude
    IN  IF s.type = "geographic"
        THEN [ok |-> TRUE,
              event |-> Event(origin, m.latitude + s.p[1], m.longitude + s.p[2],
                              m.depth + s.p[3], magnitude)]
        ELSE
        \* lines 206-213: at the equator cos(latitude) is 1 at the model's resolution
        LET ddist == s.p[1] \div MetrePerKm
        IN  [ok |-> TRUE,
             event |-> Event(origin,
                             m.latitude + kilometers2degrees(ddist * CosDeg(s.p[2])),
                             m.longitude + kilometers2degrees(ddist * SinDeg(s.p[2])),
                             m.depth + s.p[3] \div MetrePerKm, magnitude)]

-----------------------------------------------------------------------------
(***************************************************************************)
(* ddrelocator.py: the use-flag evaluator and the list-based grid search.  *)
(***************************************************************************)
\* ddrelocator.Solution.__init__(dlat, dlon, ddepth, master)
ddrelocator_Solution(dlat, dlon, ddepth, m) ==
    [dlat |-> dlat, dlon |-> dlon, ddepth |-> ddepth,
     latitude |-> m.latitude + dlat, longitude |-> m.longitude + dlon,
     depth |-> m.depth + ddepth, tmean |-> Unset, misfit |-> Unset]

\* The values of s, whatever keep says.
Filter_all(s, keep) == s

\* The values of s at the indices i, in order, for which keep[i] holds.
RECURSIVE Filter(_, _)
Filter(s, keep) ==
    IF s = <<>> THEN <<>>
    ELSE (IF Head(keep) THEN <<Head(s)>> ELSE <<>>) \o Filter(Tail(s), Tail(keep))

\* ddrelocator.try_solution, lines 210-216: dt_pre and residual of every
\* observation.
ddrelocator_residuals(obs, s) ==
    Eval([i \in 1..Len(obs) |->
            Bind(QInt(obs[i].dtdd * (distaz(s.latitude, s.longitude,
                                            obs[i].latitude, obs[i].longitude)
                                     - obs[i].distance)
                      + obs[i].dtdh * s.ddepth),
                 LAMBDA dt_pre :
                    [obs[i] EXCEPT !.dt_pre = dt_pre,
                                   !.residual = QSub(QInt(obs[i].dt), dt_pre)])])

\* ddrelocator.try_solution that subtracts tmean from the residuals of the used
\* observations only.
ddrelocator_try_solution_used_only(obs, s) ==
    Bind(ddrelocator_residuals(obs, s), LAMBDA res :
    Bind(Eval([i \in 1..Len(obs) |-> obs[i].weight = 1]), LAMBDA use :
    Bind(np_mean(Filter(Eval([i \in 1..Len(res) |-> res[i].residual]), use)),
         LAMBDA tmean :
    Bind(Eval([i \in 1..Len(res) |->
                 IF use[i]
                 THEN [res[i] EXCEPT !.residual = QSub(res[i].residual, tmean)]
                 ELSE res[i]]),
         LAMBDA out :
       [obslist |-> out,
        sol |-> [s EXCEPT
                   !.tmean = tmean,
                   !.misfit = np_sqrt(np_mean(Filter(
                                 Eval([i \in 1..Len(out) |->
                                         QMul(out[i].residual, out[i].residual)]),
                                 use)))]]))))

\* ddrelocator.try_solution(obslist, sol): never raises; the weight field is the
\* legacy class's use flag.  res: after lines 210-216; use: line 219; tmean:
\* line 220; out: after lines 223-224; the misfit: line 227.
ddrelocator_try_solution(obs, s) ==
    Bind(ddrelocator_residuals(obs, s), LAMBDA res :
    Bind(Eval([i \in 1..Len(obs) |-> obs[i].weight = 1]), LAMBDA use :
    Bind(np_mean(Filter(Eval([i \in 1..Len(res) |-> res[i].residual]), use)),
         LAMBDA tmean :
    Bind(Eval([i \in 1..Len(res) |->
                 [res[i] EXCEPT !.residual = QSub(res[i].residual, tmean)]]),
         LAMBDA out :
       [obslist |-> out,
        sol |-> [s EXCEPT
                   !.tmean = tmean,
                   !.misfit = np_sqrt(np_mean(Filter(
                                 Eval([i \in 1..Len(out) |->
                                         QMul(out[i].residual, out[i].residual)]),
                                 use)))]]))))

\* itertools.product(a, b, c) as the list it enumerates: the last sequence
\* varies fastest.  numpy.mgrid flattened in C order enumerates in the same order.
itertools_product(a, b, c) ==
    Eval([k \in 1..(Len(a) * Len(b) * Len(c)) |->
            <<a[((k - 1) \div (Len(b) * Len(c))) + 1],
              b[(((k - 1) \div Len(c)) % Len(b)) + 1],
              c[((k - 1) % Len(c)) + 1]>>])

\* numpy.argmin that returns the first index whatever the values.
np_argmin_head(s) == 1

\* numpy.argmin that returns the last occurrence of the minimum.
np_argmin_last(s) ==
    IF \E i \in 1..Len(s) : IsNaN(s[i])
    THEN CHOOSE i \in 1..Len(s) : IsNaN(s[i]) /\ \A j \in 1..(i - 1) : ~IsNaN(s[j])
    ELSE CHOOSE i \in 1..Len(s) :
             /\ \A j \in 1..Len(s) : ~QLess(s[j], s[i])
             /\ \A j \in (i + 1)..Len(s) : QLess(s[i], s[j])

\* numpy.argmin of a non-empty list of floats (1-based here): the first NaN when
\* there is one, else the first occurrence of the minimum.
np_argmin(s) ==
    IF \E i \in 1..Len(s) : IsNaN(s[i])
    THEN CHOOSE i \in 1..Len(s) : IsNaN(s[i]) /\ \A j \in 1..(i - 1) : ~IsNaN(s[j])
    ELSE CHOOSE i \in 1..Len(s) :
             /\ \A j \in 1..Len(s) : ~QLess(s[j], s[i])
             /\ \A j \in 1..(i - 1) : QLess(s[i], s[j])

\* numpy.mgrid[slice(start, stop, step)] for step > 0: start, start + step, ...
\* below stop.
mgrid_axis(sl) ==
    LET start == sl[1]
        stop == sl[2]
        step == sl[3]
        n == IF stop > start THEN (stop - start + step - 1) \div step ELSE 0
    IN  Eval([i \in 1..n |-> start + (i - 1) * step])

\* scipy.optimize.brute, the loop that turns the flat index of the minimum into
\* one index per axis (0-based), for an array of shape (n1, n2, n3).
brute_unravel(indx, n1, n2, n3) ==
    <<((indx \div n3) \div n2) % n1, (indx \div n3) % n2, indx % n3>>

\* locator.try_solution_wrapper(params, master, obslist, sol_type)
try_solution_wrapper(params, m, obs, sol_type) ==
    LET r == try_solution(m, obs, Solution(params, sol_type).sol, FALSE)
    IN  [obslist |-> r.obslist, misfit |-> r.sol.misfit, err |-> r.err]

-----------------------------------------------------------------------------
(***************************************************************************)
(* The inputs the session draws from.                                      *)
(***************************************************************************)
GeoParams == {<<1, 0, 0>>, <<0, -1, 1>>}
CylParams == {<<1000, 0, 0>>, <<2000, 90, -1000>>}
ParamsOf(type) == IF type = "cylindrical" THEN CylParams ELSE GeoParams

\* ddeps, dlats, dlons of SearchParams
DdepSeqs == {<<>>, <<0, 1>>}
DlatSeqs == {<<0>>, <<0, 1>>}
DlonSeqs == {<<>>, <<-1, 0>>}

\* ranges of find_solution: three slices <<start, stop, step>>
GeoRanges == {<<<<0, 2, 1>>, <<-1, 1, 1>>, <<0, 1, 1>>>>, <<<<0, 1, 1>>, <<0, 0, 1>>, <<0, 2, 1>>>>}
CylRanges == {<<<<1000, 2000, 1000>>, <<0, 180, 90>>, <<-1000, 1000, 1000>>>>,
              <<<<1000, 1000, 1000>>, <<0, 180, 90>>, <<0, 1000, 1000>>>>}
RangesOf(type) == IF type = "cylindrical" THEN CylRanges ELSE GeoRanges

NoSweep == [driver |-> "none", ranges |-> <<<<>>, <<>>, <<>>>>, type |-> "none", ncores |-> 1]

\* The three axes of the sweep and its grid points in enumeration order.
Axes(sw) ==
    IF sw.driver = "find_solution"
    THEN <<mgrid_axis(sw.ranges[1]), mgrid_axis(sw.ranges[2]), mgrid_axis(sw.ranges[3])>>
    ELSE sw.ranges
GridPoints(sw) == itertools_product(Axes(sw)[1], Axes(sw)[2], Axes(sw)[3])

-----------------------------------------------------------------------------
(***************************************************************************)
(* The session: a caller holding a master Event and an observation list    *)
(* calls the functions of one of the two modules.                          *)
(***************************************************************************)
\* No observation file was written yet.
NoFile == [exists |-> FALSE, header |-> <<>>, rows |-> <<>>]

\* No pool of worker processes exists outside find_solution.
NoPool == [next |-> 0, mem |-> <<>>, worker |-> <<>>, err |-> "none"]

Init ==
    /\ api \in {"locator", "ddrelocator"}
    /\ master = Master
    /\ obslist \in ObsLists(IF api = "locator" THEN Weights ELSE UseFlags)
    /\ sol = NoSol
    /\ event = NoEvent
    /\ solutions = <<>>
    /\ best = <<>>
    /\ Jout = <<>>
    /\ sweep = NoSweep
    /\ evals = <<>>
    /\ pc = "idle"
    /\ err = "none"
    /\ lastop = <<"none", "">>
    /\ ncalls = 0
    /\ pool = NoPool
    /\ file = NoFile

CanCall(a) == api = a /\ pc = "idle" /\ ncalls < MaxCalls

\* sol = Solution(params, type)
call_Solution(params, type) ==
    /\ CanCall("locator")
    /\ \E r \in {Solution(params, type)} :
           /\ sol' = IF r.ok THEN r.sol ELSE sol
           /\ err' = IF r.ok THEN "none" ELSE "ValueError"
    /\ lastop' = <<"Solution", type>>
    /\ ncalls' = ncalls + 1
    /\ UNCHANGED <<file, pool, api, master, obslist, event, solutions, best, Jout, sweep, evals, pc>>

\* try_solution called so that it never deletes dt_pre and residual.
call_try_solution_kept(keep_residual) ==
    /\ CanCall("locator")
    /\ sol # NoSol
    /\ \E r \in {try_solution(master, obslist, sol, TRUE)} :
           /\ obslist' = r.obslist
           /\ sol' = r.sol
           /\ err' = r.err
    /\ lastop' = <<"try_solution", IF keep_residual THEN "keep" ELSE "discard">>
    /\ ncalls' = ncalls + 1
    /\ UNCHANGED <<file, pool, api, master, event, solutions, best, Jout, sweep, evals, pc>>

\* try_solution(master, obslist, sol, keep_residual)
call_try_solution(keep_residual) ==
    /\ CanCall("locator")
    /\ sol # NoSol
    /\ \E r \in {try_solution(master, obslist, sol, keep_residual)} :
           /\ obslist' = r.obslist
           /\ sol' = r.sol
           /\ err' = r.err
    /\ lastop' = <<"try_solution", IF keep_residual THEN "keep" ELSE "discard">>
    /\ ncalls' = ncalls + 1
    /\ UNCHANGED <<file, pool, api, master, event, solutions, best, Jout, sweep, evals, pc>>

\* event = sol.to_event(master, slave)
call_to_event(slave) ==
    /\ CanCall("locator")
    /\ sol # NoSol
    /\ \E r \in {to_event(sol, master, slave)} :
           /\ event' = IF r.ok THEN r.event ELSE event
           /\ err' = IF r.ok THEN "none" ELSE "AttributeError"
    /\ lastop' = <<"to_event", IF slave = NoEvent THEN "master" ELSE "slave">>
    /\ ncalls' = ncalls + 1
    /\ UNCHANGED <<file, pool, api, master, obslist, sol, solutions, best, Jout, sweep, evals, pc>>

\* optimize.brute that leaves out the grid points whose evaluation raises.
RECURSIVE brute_map_skipping(_, _, _, _, _, _)
brute_map_skipping(k, points, m, obs, sw, J) ==
    IF k > Len(points)
    THEN [obslist |-> obs, Jout |-> J, err |-> "none", evals |-> points]
    ELSE Bind(try_solution_wrapper(points[k], m, obs, sw.type),
              LAMBDA r :
                 brute_map_skipping(k + 1, points, m,
                                    IF sw.ncores = 1 THEN r.obslist ELSE obs, sw,
                                    IF r.err # "none" THEN J ELSE Append(J, r.misfit)))

\* optimize.brute maps try_solution_wrapper over the grid points from the k-th on:
\* with ncores = 1 in the caller's process, on the caller's observation list; with
\* workers, in processes that each work on a pickled copy of it.  The first
\* exception ends the map.
RECURSIVE brute_map(_, _, _, _, _, _)
brute_map(k, points, m, obs, sw, J) ==
    IF k > Len(points)
    THEN [obslist |-> obs, Jout |-> J, err |-> "none", evals |-> SubSeq(points, 1, k - 1)]
    ELSE Bind(try_solution_wrapper(points[k], m, obs, sw.type),
              LAMBDA r :
                 IF r.err # "none"
                 THEN [obslist |-> IF sw.ncores = 1 THEN r.obslist ELSE obs,
                       Jout |-> <<>>, err |-> r.err, evals |-> SubSeq(points, 1, k)]
                 ELSE brute_map(k + 1, points, m,
                                IF sw.ncores = 1 THEN r.obslist ELSE obs,
                                sw, Append(J, r.misfit)))

\* With workers every grid point is evaluated, each on a copy of the caller's
\* list, and the call raises the exception of the task that failed first in
\* time: any of the exceptions the grid points raise.
map_errors(points, m, obs, sol_type) ==
    {try_solution_wrapper(points[k], m, obs, sol_type).err : k \in 1..Len(points)}
       \ {"none"}

\* find_solution that returns the Solution it evaluated at the minimum.
brute_result_evaluated(m, obs, sw, J) ==
    LET ax == Axes(sw)
        nd == brute_unravel(np_argmin(J) - 1, Len(ax[1]), Len(ax[2]), Len(ax[3]))
        params == <<ax[1][nd[1] + 1], ax[2][nd[2] + 1], ax[3][nd[3] + 1]>>
    IN  try_solution(m, obs, Solution(params, sw.type).sol, FALSE).sol

\* The end of optimize.brute and locator.py lines 119-120: the parameters at the
\* argmin of the non-empty Jout, in a new Solution.
brute_result(m, obs, sw, J) ==
    LET ax == Axes(sw)
        nd == brute_unravel(np_argmin(J) - 1, Len(ax[1]), Len(ax[2]), Len(ax[3]))
        params == <<ax[1][nd[1] + 1], ax[2][nd[2] + 1], ax[3][nd[3] + 1]>>
    IN  Solution(params, sw.type).sol

\* sol, grid, Jout = find_solution(master, obslist, ranges, sol_type, ncores).
\* numpy.argmin of an empty Jout raises ValueError.  Jout is <<>> when the call
\* raises.
find_solution(ranges, sol_type, ncores) ==
    /\ CanCall("locator")
    /\ \E sw \in {[driver |-> "find_solution", ranges |-> ranges,
                   type |-> sol_type, ncores |-> ncores]} :
       \E r \in {IF sol_type \notin {"geographic", "cylindrical"}
                 THEN [obslist |-> obslist, Jout |-> <<>>, err |-> "ValueError",
                       evals |-> <<>>]
                 ELSE brute_map(1, GridPoints(sw), master, obslist, sw, <<>>)} :
       \E raised \in IF r.err = "none"
                     THEN {IF Len(r.Jout) = 0 THEN "ValueError" ELSE "none"}
                     ELSE IF ncores = 1 \/ r.evals = <<>> THEN {r.err}
                     ELSE map_errors(GridPoints(sw), master, obslist, sol_type) :
           /\ sweep' = sw
           /\ evals' = IF r.err = "none" \/ ncores = 1 \/ r.evals = <<>>
                       THEN r.evals ELSE GridPoints(sw)
           /\ obslist' = r.obslist
           /\ Jout' = r.Jout
           /\ err' = raised
           /\ sol' = IF raised = "none"
                     THEN brute_result(master, r.obslist, sw, r.Jout) ELSE sol
    /\ ncalls' = ncalls + 1
    /\ lastop' = <<"find_solution", sol_type>>
    /\ UNCHANGED <<file, pool, api, master, event, solutions, best, pc>>

\* solutions = gridsearch(master, obslist, SearchParams(dlats, dlons, ddeps)), line 248
gridsearch_enter(ddeps, dlats, dlons) ==
    /\ CanCall("ddrelocator")
    /\ ncalls' = ncalls + 1
    /\ sweep' = [driver |-> "gridsearch", ranges |-> <<ddeps, dlats, dlons>>,
                 type |-> "none", ncores |-> 1]
    /\ solutions' = <<>>
    /\ evals' = <<>>
    /\ pc' = "gridsearch"
    /\ UNCHANGED <<file, pool, api, master, obslist, sol, event, best, Jout, err, lastop>>

\* One Solution of gridsearch's loop that is built and appended but not evaluated.
gridsearch_body_skip(m, obs, c) ==
    [obslist |-> obs, sol |-> ddrelocator_Solution(c[2], c[3], c[1], m)]

\* One pass of gridsearch's loop, lines 249-252, for the combination c = (ddep, dlat, dlon).
gridsearch_body(m, obs, c) ==
    ddrelocator_try_solution(obs, ddrelocator_Solution(c[2], c[3], c[1], m))

\* An exception of try_solution (the ValueError of gps2dist_azimuth, lines
\* 213-215, for the first observation) leaves gridsearch: the caller gets no list.
gridsearch_loop ==
    /\ pc = "gridsearch"
    /\ Len(solutions) < Len(GridPoints(sweep))
    /\ \E c \in {GridPoints(sweep)[Len(solutions) + 1]} :
       IF Len(obslist) > 0 /\ distaz_raises(master.latitude + c[2])
       THEN /\ evals' = Append(evals, c)
            /\ solutions' = <<>>
            /\ pc' = "idle"
            /\ err' = "ValueError"
            /\ lastop' = <<"gridsearch", "">>
            /\ UNCHANGED obslist
       ELSE \E r \in {gridsearch_body(master, obslist, c)} :
               /\ evals' = Append(evals, c)
               /\ obslist' = r.obslist
               /\ solutions' = Append(solutions, r.sol)
               /\ UNCHANGED <<pc, err, lastop>>
    /\ UNCHANGED <<file, pool, api, master, sol, event, best, Jout, sweep, ncalls>>

\* line 253
gridsearch_return ==
    /\ pc = "gridsearch"
    /\ Len(solutions) = Len(GridPoints(sweep))
    /\ pc' = "idle"
    /\ err' = "none"
    /\ lastop' = <<"gridsearch", "">>
    /\ UNCHANGED <<file, pool, api, master, obslist, sol, event, solutions, best, Jout, sweep, evals, ncalls>>

\* best = find_best_solution(solutions); numpy.argmin of an empty list raises
\* ValueError.
find_best_solution ==
    /\ CanCall("ddrelocator")
    /\ lastop[1] \in {"gridsearch", "find_best_solution"}
    /\ lastop[1] = "gridsearch" => err = "none"
    /\ ncalls' = ncalls + 1
    /\ lastop' = <<"find_best_solution", "">>
    /\ IF Len(solutions) = 0
       THEN err' = "ValueError" /\ best' = best
       ELSE /\ err' = "none"
            /\ best' = <<solutions[np_argmin([i \in 1..Len(solutions) |->
                                                solutions[i].misfit])]>>
    /\ UNCHANGED <<file, pool, api, master, obslist, sol, event, solutions, Jout, sweep, evals, pc>>

Next ==
    \/ \E type \in SolTypes \cup {BadType} : \E params \in ParamsOf(type) :
           call_Solution(params, type)
    \/ \E keep_residual \in BOOLEAN : call_try_solution(keep_residual)
    \/ \E slave \in {NoEvent, Slave} : call_to_event(slave)
    \/ \E type \in SolTypes \cup {BadType} : \E ranges \in RangesOf(type) :
           \E ncores \in {1, -1} : find_solution(ranges, type, ncores)
    \/ \E ddeps \in DdepSeqs, dlats \in DlatSeqs, dlons \in DlonSeqs :
           gridsearch_enter(ddeps, dlats, dlons)
    \/ gridsearch_loop
    \/ gridsearch_return
    \/ find_best_solution

Spec == Init /\ [][Next]_vars

\* A session that uses ddrelocator.py alone.
ddrelocator_Init == Init /\ api = "ddrelocator"

ddrelocator_Next ==
    \/ \E ddeps \in DdepSeqs, dlats \in DlatSeqs, dlons \in DlonSeqs :
           gridsearch_enter(ddeps, dlats, dlons)
    \/ gridsearch_loop
    \/ gridsearch_return
    \/ find_best_solution

ddrelocator_Spec == ddrelocator_Init /\ [][ddrelocator_Next]_vars

-----------------------------------------------------------------------------
(***************************************************************************)
(* find_solution with worker processes (ncores # 1).  optimize.brute hands *)
(* the grid points to a multiprocessing pool; for the grids of this model  *)
(* the pool's chunk size is 1, so every grid point is one task.  A task    *)
(* carries try_solution_wrapper's arguments pickled: the worker that takes *)
(* it works on the records it unpickled.  pool.mem[a] is the observation   *)
(* list at address a: address 0 is the caller's list, address w the list   *)
(* worker w unpickled.  The steps of a worker are the loops of             *)
(* locator.try_solution; workers interleave between them.                  *)
(***************************************************************************)
Workers == 1..MaxWorkers

IdleWorker == [pc |-> "idle", k |-> 0, adr |-> 0, sol |-> NoSol]

\* Worker w's task names the caller's records themselves.
pickle_by_reference(w) == 0

\* The address of the observation list worker w gets when it unpickles a task:
\* a copy of its own.
pickle_loads(w) == w

\* The first exception of a task is what pool.map raises; the worker goes on.
worker_raise(p, w, e) ==
    [p EXCEPT !.err = IF @ = "none" THEN e ELSE @, !.worker[w] = IdleWorker]

\* find_solution(master, obslist, ranges, sol_type, ncores) with ncores # 1,
\* up to the start of the pool (lines 109-118).
find_solution_workers(ranges, sol_type, ncores) ==
    /\ CanCall("locator")
    /\ ncalls' = ncalls + 1
    /\ lastop' = <<"find_solution", sol_type>>
    /\ sweep' = [driver |-> "find_solution", ranges |-> ranges,
                 type |-> sol_type, ncores |-> ncores]
    /\ IF sol_type \notin {"geographic", "cylindrical"}
       THEN /\ err' = "ValueError"
            /\ evals' = <<>>
            /\ Jout' = <<>>
            /\ UNCHANGED <<pc, pool>>
       ELSE /\ err' = "none"
            /\ evals' = GridPoints(sweep')
            /\ Jout' = [k \in 1..Len(evals') |-> Unset]
            /\ pc' = "pool"
            /\ pool' = [next |-> 1,
                        mem |-> [a \in 0..MaxWorkers |->
                                   IF a = 0 THEN obslist ELSE <<>>],
                        worker |-> [w \in Workers |-> IdleWorker],
                        err |-> "none"]
    /\ UNCHANGED <<file, api, master, obslist, sol, event, solutions, best>>

\* An idle worker takes the next grid point and enters try_solution_wrapper
\* (lines 81-82).
worker_enter(w) ==
    /\ pc = "pool"
    /\ pool.worker[w].pc = "idle"
    /\ pool.next <= Len(evals)
    /\ \E a \in {pickle_loads(w)} :
          pool' = [pool EXCEPT
                     !.next = @ + 1,
                     !.mem[a] = pool.mem[0],
                     !.worker[w] = [pc |-> "predict", k |-> pool.next, adr |-> a,
                                    sol |-> Solution(evals[pool.next], sweep.type).sol]]
    /\ UNCHANGED <<file, api, master, obslist, sol, event, solutions, best, Jout, sweep,
                   evals, pc, err, lastop, ncalls>>

\* lines 26-39: the loop that writes obs.dt_pre
worker_predict(w) ==
    /\ pc = "pool"
    /\ pool.worker[w].pc = "predict"
    /\ \E a \in {pool.worker[w].adr} :
          pool' = IF /\ pool.worker[w].sol.type = "geographic"
                     /\ Len(pool.mem[a]) > 0
                     /\ distaz_raises(master.latitude + pool.worker[w].sol.p[1])
                  THEN worker_raise(pool, w, "ValueError")
                  ELSE [pool EXCEPT
                          !.mem[a] = Eval(predict(master, pool.mem[a],
                                                  pool.worker[w].sol)),
                          !.worker[w].pc = "residual"]
    /\ UNCHANGED <<file, api, master, obslist, sol, event, solutions, best, Jout, sweep,
                   evals, pc, err, lastop, ncalls>>

\* lines 45-46: the loop that writes obs.residual
worker_residual(w) ==
    /\ pc = "pool"
    /\ pool.worker[w].pc = "residual"
    /\ \E a \in {pool.worker[w].adr} : \E obs \in {pool.mem[a]} :
          pool' = IF \E i \in 1..Len(obs) : obs[i].dt_pre = Unset
                  THEN worker_raise(pool, w, "AttributeError")
                  ELSE [pool EXCEPT
                          !.mem[a] = Eval([i \in 1..Len(obs) |->
                                             [obs[i] EXCEPT !.residual =
                                                QSub(QInt(obs[i].dt), obs[i].dt_pre)]]),
                          !.worker[w].pc = "average"]
    /\ UNCHANGED <<file, api, master, obslist, sol, event, solutions, best, Jout, sweep,
                   evals, pc, err, lastop, ncalls>>

\* lines 49-53: tmean and misfit from the residuals and weights on the records
worker_average(w) ==
    /\ pc = "pool"
    /\ pool.worker[w].pc = "average"
    /\ \E obs \in {pool.mem[pool.worker[w].adr]} :
       \E residuals \in {Eval([i \in 1..Len(obs) |-> obs[i].residual])} :
       \E weights \in {Eval([i \in 1..Len(obs) |-> obs[i].weight])} :
          IF \E i \in 1..Len(obs) : residuals[i] = Unset
          THEN pool' = worker_raise(pool, w, "AttributeError")
          ELSE \E avg \in {np_average(residuals, weights)} :
               IF ~avg.ok
               THEN pool' = worker_raise(pool, w, "ZeroDivisionError")
               ELSE \E msq \in {np_average(Eval([i \in 1..Len(obs) |->
                                                   QMul(QSub(residuals[i], avg.value),
                                                        QSub(residuals[i], avg.value))]),
                                           weights)} :
                    pool' = [pool EXCEPT
                               !.worker[w].sol.tmean = avg.value,
                               !.worker[w].sol.misfit = np_sqrt(msq.value),
                               !.worker[w].pc = "cleanup"]
    /\ UNCHANGED <<file, api, master, obslist, sol, event, solutions, best, Jout, sweep,
                   evals, pc, err, lastop, ncalls>>

\* lines 59-61: del obs.residual, obs.dt_pre
worker_cleanup(w) ==
    /\ pc = "pool"
    /\ pool.worker[w].pc = "cleanup"
    /\ \E a \in {pool.worker[w].adr} : \E obs \in {pool.mem[a]} :
          pool' = IF \E i \in 1..Len(obs) :
                        obs[i].residual = Unset \/ obs[i].dt_pre = Unset
                  THEN worker_raise(pool, w, "AttributeError")
                  ELSE [pool EXCEPT
                          !.mem[a] = Eval([i \in 1..Len(obs) |->
                                             [obs[i] EXCEPT !.residual = Unset,
                                                            !.dt_pre = Unset]]),
                          !.worker[w].pc = "return"]
    /\ UNCHANGED <<file, api, master, obslist, sol, event, solutions, best, Jout, sweep,
                   evals, pc, err, lastop, ncalls>>

\* line 84: the misfit goes back to the pool, into the slot of the grid point
worker_return(w) ==
    /\ pc = "pool"
    /\ pool.worker[w].pc = "return"
    /\ Jout' = [Jout EXCEPT ![pool.worker[w].k] = pool.worker[w].sol.misfit]
    /\ pool' = [pool EXCEPT !.worker[w] = IdleWorker]
    /\ UNCHANGED <<file, api, master, obslist, sol, event, solutions, best, sweep,
                   evals, pc, err, lastop, ncalls>>

\* Every task is done: optimize.brute returns or raises, and find_solution
\* builds the Solution it returns (lines 119-120).
find_solution_join ==
    /\ pc = "pool"
    /\ pool.next > Len(evals)
    /\ \A w \in Workers : pool.worker[w].pc = "idle"
    /\ \E raised \in {IF pool.err # "none" THEN pool.err
                      ELSE IF Len(Jout) = 0 THEN "ValueError" ELSE "none"} :
           /\ err' = raised
           /\ Jout' = IF pool.err # "none" THEN <<>> ELSE Jout
           /\ sol' = IF raised = "none"
                     THEN brute_result(master, pool.mem[0], sweep, Jout) ELSE sol
    /\ obslist' = pool.mem[0]
    /\ pc' = "idle"
    /\ pool' = NoPool
    /\ UNCHANGED <<file, api, master, event, solutions, best, sweep, evals, lastop, ncalls>>

Pool_Init == Init /\ api = "locator"

Pool_Next ==
    \/ \E type \in SolTypes \cup {BadType} : \E ranges \in RangesOf(type) :
           find_solution_workers(ranges, type, -1)
    \/ \E w \in Workers : worker_enter(w)
    \/ \E w \in Workers : worker_predict(w)
    \/ \E w \in Workers : worker_residual(w)
    \/ \E w \in Workers : worker_average(w)
    \/ \E w \in Workers : worker_cleanup(w)
    \/ \E w \in Workers : worker_return(w)
    \/ find_solution_join

Pool_Spec == Pool_Init /\ [][Pool_Next]_vars

-----------------------------------------------------------------------------
(***************************************************************************)
(* A session that evaluates and converts cylindrical Solutions without a   *)
(* horizontal offset: ddist = 0, ddepth a whole number of kilometres given *)
(* in metres.                                                              *)
(***************************************************************************)
DepthOffsets == {-1, 0, 1, 2}
Azimuths == {0, 90}

Depth_Init == Init /\ api = "locator"

Depth_Next ==
    \/ \E h \in DepthOffsets, az \in Azimuths :
           call_Solution(<<0, az, MetrePerKm * h>>, "cylindrical")
    \/ \E keep_residual \in BOOLEAN : call_try_solution(keep_residual)
    \/ \E slave \in {NoEvent, Slave} : call_to_event(slave)

Depth_Spec == Depth_Init /\ [][Depth_Next]_vars

-----------------------------------------------------------------------------
(***************************************************************************)
(* Sessions whose sweeps reach a trial latitude beyond 90 degrees, where   *)
(* the evaluation of a grid point raises after others were evaluated.      *)
(***************************************************************************)
FarDlats == {<<0, 9000>>, <<9000, 0>>}
FarRanges == {<<<<0, 18000, 9000>>, <<0, 1, 1>>, <<0, 1, 1>>>>}

Abort_Init == Init

Abort_Next ==
    \/ \E ddeps \in DdepSeqs, dlats \in FarDlats, dlons \in DlonSeqs :
           gridsearch_enter(ddeps, dlats, dlons)
    \/ gridsearch_loop
    \/ gridsearch_return
    \/ find_best_solution
    \/ \E ranges \in GeoRanges \cup FarRanges : \E ncores \in {1, -1} :
           find_solution(ranges, "geographic", ncores)

Abort_Spec == Abort_Init /\ [][Abort_Next]_vars

-----------------------------------------------------------------------------
(***************************************************************************)
(* A session that also writes its observation list to a file and reads it  *)
(* back (examples/ex1/prepare_obs.py, lines 82-87).  The two helpers are    *)
(* not counted among the calls that MaxCalls bounds.                       *)
(***************************************************************************)
\* dump_obslist(obslist, "obs.dat")
call_dump_obslist ==
    /\ api = "locator"
    /\ pc = "idle"
    /\ file' = dump_obslist(obslist)
    /\ err' = "none"
    /\ lastop' = <<"dump_obslist", "">>
    /\ UNCHANGED <<pool, api, master, obslist, sol, event, solutions, best, Jout,
                   sweep, evals, pc, ncalls>>

\* obslist = read_obslist("obs.dat").  For a file written from an empty list,
\* which has no column, pandas returns no row or raises EmptyDataError,
\* depending on its version.
call_read_obslist ==
    /\ api = "locator"
    /\ pc = "idle"
    /\ file.exists
    /\ \E r \in {read_obslist(file)} \cup
                (IF file.header = <<>>
                 THEN {[err |-> "EmptyDataError", obslist |-> <<>>]} ELSE {}) :
           /\ obslist' = IF r.err = "none" THEN r.obslist ELSE obslist
           /\ err' = r.err
    /\ lastop' = <<"read_obslist", "">>
    /\ UNCHANGED <<file, pool, api, master, sol, event, solutions, best, Jout,
                   sweep, evals, pc, ncalls>>

File_Init == Init /\ api = "locator"

File_Next ==
    \/ \E params \in GeoParams : call_Solution(params, "geographic")
    \/ \E keep_residual \in BOOLEAN : call_try_solution(keep_residual)
    \/ call_dump_obslist
    \/ call_read_obslist

File_Spec == File_Init /\ [][File_Next]_vars

-----------------------------------------------------------------------------
(***************************************************************************)
(* Properties.                                                             *)
(***************************************************************************)
\* The last call returned normally.
Returned(op) == pc = "idle" /\ lastop[1] = op /\ err = "none"

\* The Solution gridsearch appended last, and the same offsets in a new Solution.
LastSolution == solutions[Len(solutions)]
Rebuilt(s) == ddrelocator_Solution(s.dlat, s.dlon, s.ddepth, master)

\* obs with the dt of its observations of weight 0 (use flag 0) replaced by d[i].
WithDt(obs, d) ==
    Eval([i \in 1..Len(obs) |->
            IF obs[i].weight = 0 THEN [obs[i] EXCEPT !.dt = d[i]] ELSE obs[i]])
OtherDts == {0, 1, 7}
DtVariants(obs) == {WithDt(obs, d) : d \in [1..Len(obs) -> OtherDts]}

\* obs as first built: no observation has dt_pre or residual.
Fresh(obs) ==
    Eval([i \in 1..Len(obs) |-> [obs[i] EXCEPT !.dt_pre = Unset, !.residual = Unset]])

\* C1: an observation of weight 0 (locator.try_solution) or use flag 0
\* (ddrelocator.try_solution) has no influence: the evaluation that just
\* returned, repeated on a list that differs only in the dt of such observations,
\* gives the same tmean and the same misfit.
C1_zero_weight_no_influence ==
    /\ (api = "locator" /\ Returned("try_solution")) =>
          \A o \in DtVariants(obslist) :
             \E r \in {try_solution(master, o, sol, FALSE)} :
                r.err = "none" /\ r.sol.tmean = sol.tmean /\ r.sol.misfit = sol.misfit
    /\ (pc = "gridsearch" /\ solutions # <<>>) =>
          \A o \in DtVariants(obslist) :
             \E r \in {ddrelocator_try_solution(o, Rebuilt(LastSolution))} :
                r.sol.tmean = LastSolution.tmean /\ r.sol.misfit = LastSolution.misfit

\* C1 witness: try_solution returned for a list that holds an observation of
\* weight 0 with dt = 1 next to one of another weight, with a finite misfit.
C1_witness ==
    /\ api = "locator" /\ Returned("try_solution")
    /\ \E i, j \in 1..Len(obslist) :
          /\ obslist[i].weight = 0 /\ obslist[i].dt = 1
          /\ obslist[j].weight # 0
    /\ ~IsNaN(sol.misfit)

\* C2: nothing left on the observations by earlier calls leaks into a result: the
\* tmean and misfit just written equal those of a first evaluation of the same
\* Solution on a fresh copy of the list, in a direct call of try_solution, in
\* every pass of gridsearch's loop and in every entry of find_solution's Jout.
C2_no_leak ==
    /\ (api = "locator" /\ Returned("try_solution")) =>
          \E r \in {try_solution(master, Fresh(obslist), sol, FALSE)} :
             r.err = "none" /\ r.sol.tmean = sol.tmean /\ r.sol.misfit = sol.misfit
    /\ (pc = "gridsearch" /\ solutions # <<>>) =>
          \E r \in {ddrelocator_try_solution(Fresh(obslist), Rebuilt(LastSolution))} :
             r.sol.tmean = LastSolution.tmean /\ r.sol.misfit = LastSolution.misfit
    /\ Returned("find_solution") =>
          \A k \in 1..Len(Jout) :
             Jout[k] = try_solution_wrapper(evals[k], master, Fresh(obslist),
                                            sweep.type).misfit

\* C2 witness: gridsearch has evaluated a second Solution, with another result,
\* on observations that carried the dt_pre and residual of the first.
C2_witness ==
    /\ pc = "gridsearch" /\ Len(solutions) >= 2
    /\ obslist # <<>> /\ obslist[1].residual # Unset
    /\ solutions[1].tmean # solutions[2].tmean
    /\ solutions[1].misfit # solutions[2].misfit

\* No observation of the list has a positive weight (use flag): the list is
\* empty or every weight is 0.
NoPositiveWeight(obs) == \A i \in 1..Len(obs) : obs[i].weight = 0

\* C3: called with an empty list, or with one in which every weight (use flag) is
\* 0, the evaluator raises an error; it never returns with tmean or misfit NaN.
C3_invalid_input_signalled ==
    /\ (api = "locator" /\ lastop[1] = "try_solution" /\ NoPositiveWeight(obslist)) =>
          err # "none"
    /\ (pc = "gridsearch" /\ NoPositiveWeight(obslist)) =>
          \A i \in 1..Len(solutions) :
             ~IsNaN(solutions[i].tmean) /\ ~IsNaN(solutions[i].misfit)

\* The misfits of the list gridsearch returned.
Misfits == Eval([i \in 1..Len(solutions) |-> solutions[i].misfit])

\* The place in the sweep of the grid point find_solution returned.
ReturnedIndex == CHOOSE k \in 1..Len(evals) : evals[k] = sol.p

\* C4: when a sweep holds a NaN misfit the search raises an error: neither
\* find_best_solution nor find_solution returns a grid point whose misfit is NaN.
C4_nan_never_best ==
    /\ (Returned("find_best_solution") /\ \E i \in 1..Len(Misfits) : IsNaN(Misfits[i])) =>
          ~IsNaN(best[1].misfit)
    /\ (Returned("find_solution") /\ \E k \in 1..Len(Jout) : IsNaN(Jout[k])) =>
          ~IsNaN(Jout[ReturnedIndex])

\* a is a least entry of the list J (no entry is NaN then).
IsMinimum(a, J) == \A k \in 1..Len(J) : QLeq(a, J[k])

\* C5 as stated: the Solution find_solution returns carries tmean and misfit,
\* its misfit being the minimum of Jout.
C5_returns_evaluated_solution ==
    Returned("find_solution") =>
       /\ IsSet(sol.tmean) /\ IsSet(sol.misfit)
       /\ IsMinimum(sol.misfit, Jout)

\* C5, amended: the Solution find_solution returns carries the type asked for and
\* the offset triple of a grid point of the sweep, and neither tmean nor misfit;
\* when no entry of Jout is NaN, the entry of that grid point is the minimum of
\* Jout and no earlier entry equals it.
C5_returns_bare_minimizer ==
    Returned("find_solution") =>
       /\ sol.type = sweep.type
       /\ ~IsSet(sol.tmean) /\ ~IsSet(sol.misfit)
       /\ \E k \in 1..Len(evals) : evals[k] = sol.p
       /\ Len(Jout) = Len(evals)
       /\ (\A k \in 1..Len(Jout) : ~IsNaN(Jout[k])) =>
             /\ IsMinimum(Jout[ReturnedIndex], Jout)
             /\ \A k \in 1..(ReturnedIndex - 1) : Jout[k] # Jout[ReturnedIndex]

\* C5 witness: find_solution returned from a sweep whose misfits differ, and the
\* minimum is not at the first grid point.
C5_witness ==
    /\ Returned("find_solution")
    /\ Len(Jout) >= 2
    /\ \A k \in 1..Len(Jout) : ~IsNaN(Jout[k])
    /\ ReturnedIndex > 1

\* The place of the value v in the candidate sequence seq.
Pos(seq, v) == CHOOSE i \in 1..Len(seq) : seq[i] = v

\* The index triple (into ddeps, dlats, dlons) of a Solution of the sweep.
IndexTriple(s) ==
    <<Pos(sweep.ranges[1], s.ddepth), Pos(sweep.ranges[2], s.dlat),
      Pos(sweep.ranges[3], s.dlon)>>

\* a comes before b, or is b, in lexicographic order.
LexLeq(a, b) ==
    \/ a[1] < b[1]
    \/ a[1] = b[1] /\ a[2] < b[2]
    \/ a[1] = b[1] /\ a[2] = b[2] /\ a[3] <= b[3]

\* C6: when the list gridsearch returned has a minimum misfit, find_best_solution
\* returns a Solution of the list whose misfit is less than or equal to every
\* other's, and among the Solutions that share it the first one enumerated: the
\* one with the lexicographically first (ddepth, dlat, dlon) index triple.
C6_first_minimum_wins ==
    (Returned("find_best_solution")
       /\ \E i \in 1..Len(Misfits) : IsMinimum(Misfits[i], Misfits)) =>
       /\ \E i \in 1..Len(solutions) : best[1] = solutions[i]
       /\ \A i \in 1..Len(solutions) :
             /\ QLeq(best[1].misfit, solutions[i].misfit)
             /\ solutions[i].misfit = best[1].misfit =>
                   LexLeq(IndexTriple(best[1]), IndexTriple(solutions[i]))

\* C6 witness: find_best_solution returned from a list in which two Solutions
\* share the minimum misfit and the first Solution of the list has a larger one.
C6_witness ==
    /\ Returned("find_best_solution")
    /\ \E i, j \in 1..Len(solutions) :
          /\ i < j
          /\ best[1] = solutions[i]
          /\ solutions[j].misfit = solutions[i].misfit
    /\ \E i \in 1..Len(solutions) : QLess(best[1].misfit, solutions[i].misfit)

\* The Cartesian product of the three candidate sequences of the sweep.
Combinations ==
    {<<sweep.ranges[1][i], sweep.ranges[2][j], sweep.ranges[3][k]>> :
        i \in 1..Len(sweep.ranges[1]), j \in 1..Len(sweep.ranges[2]),
        k \in 1..Len(sweep.ranges[3])}

\* The number of grid points of the sweep.
GridSize == Len(sweep.ranges[1]) * Len(sweep.ranges[2]) * Len(sweep.ranges[3])

\* C7, while gridsearch runs and when it has returned: try_solution was called on
\* combinations of the Cartesian product only, on none twice, at most
\* N1 * N2 * N3 times, and there is one Solution per call; when it has returned,
\* on every combination, and every Solution of the list has tmean and misfit.
C7_counts ==
    (pc = "gridsearch" \/ lastop[1] = "gridsearch") =>
       /\ Len(evals) <= GridSize
       /\ Len(solutions) = Len(evals)
       /\ \A k \in 1..Len(evals) :
             /\ evals[k] \in Combinations
             /\ \A l \in 1..Len(evals) : evals[l] = evals[k] => l = k
             /\ evals[k] = <<solutions[k].ddepth, solutions[k].dlat, solutions[k].dlon>>
       /\ (pc = "idle") =>
             /\ Len(solutions) = GridSize
             /\ {evals[k] : k \in 1..Len(evals)} = Combinations
             /\ \A k \in 1..Len(solutions) :
                   IsSet(solutions[k].tmean) /\ IsSet(solutions[k].misfit)

\* C7: gridsearch terminates after exactly N1 * N2 * N3 calls of try_solution,
\* one per combination of the Cartesian product, and returns that many
\* Solutions, each with tmean and misfit: every step the running gridsearch
\* takes is either one more call, made while fewer than N1 * N2 * N3 were made,
\* or its return, taken after N1 * N2 * N3 calls, and the counts above hold
\* after every step.
C7_gridsearch_exact ==
    [][/\ C7_counts'
       /\ (pc = "gridsearch") =>
             \/ /\ pc' = "gridsearch"
                /\ Len(evals) < GridSize
                /\ Len(evals') = Len(evals) + 1
             \/ /\ pc' = "idle"
                /\ Len(evals) = GridSize
                /\ evals' = evals /\ solutions' = solutions]_vars

\* C7 witness: gridsearch returned from a sweep of 2 * 2 * 2 combinations.
C7_witness ==
    /\ lastop[1] = "gridsearch" /\ pc = "idle"
    /\ GridSize = 8 /\ Len(solutions) = 8

\* C8: a Solution with a type other than "geographic" or "cylindrical" is never
\* built: the constructor raises ValueError, find_solution called with such a
\* type raises ValueError before it evaluates a grid point, and the Solution
\* try_solution is called with has one of the two types.
C8_bad_tag_rejected ==
    /\ sol.type \in SolTypes \cup {NoSol.type}
    /\ lastop = <<"Solution", BadType>> => err = "ValueError"
    /\ lastop = <<"find_solution", BadType>> =>
          err = "ValueError" /\ evals = <<>> /\ Jout = <<>>
    /\ lastop[1] = "try_solution" => sol.type \in SolTypes

\* C8 witness: the constructor raised for the unknown type, after find_solution
\* had been called with it.
C8_witness ==
    /\ lastop = <<"Solution", BadType>> /\ err = "ValueError"
    /\ sweep.driver = "find_solution" /\ sweep.type = BadType

\* C9: a sweep of zero grid points ends in an error raised by the search driver:
\* neither gridsearch nor find_solution returns normally from it.
C9_empty_sweep_is_error ==
    /\ (pc = "idle" /\ lastop[1] = "gridsearch" /\ GridSize = 0) => err # "none"
    /\ (lastop[1] = "find_solution" /\ GridPoints(sweep) = <<>>) => err # "none"

\* C10 as stated: the Event to_event returns has the master's origin time plus
\* tmean, whether or not a slave is passed, and (for a geographic Solution) the
\* master's latitude, longitude and depth plus the offsets.
C10_origin_from_master ==
    (lastop[1] = "to_event" /\ err = "none") =>
       /\ event.origin = QAdd(master.origin, sol.tmean)
       /\ sol.type = "geographic" =>
             /\ event.latitude = master.latitude + sol.p[1]
             /\ event.longitude = master.longitude + sol.p[2]
             /\ event.depth = master.depth + sol.p[3]

\* C10, amended: to_event returns an Event exactly when the Solution has a
\* tmean.  Its origin time is tmean added to the origin time of the slave when a
\* slave is passed and of the master otherwise, and its magnitude is taken from
\* the same Event.  Its latitude, longitude and depth are the master's plus the
\* offsets for a geographic Solution; for a cylindrical Solution they are the
\* master's displaced by ddist metres along the azimuth az, converted to
\* degrees, and the master's depth plus ddepth metres converted to km.
C10_origin_from_slave_if_given ==
    lastop[1] = "to_event" =>
       /\ err = "none" <=> IsSet(sol.tmean)
       /\ err = "none" =>
             /\ event.origin = QAdd(IF lastop[2] = "slave" THEN Slave.origin
                                    ELSE master.origin, sol.tmean)
             /\ event.magnitude = IF lastop[2] = "slave" THEN Slave.magnitude
                                  ELSE master.magnitude
             /\ sol.type = "geographic" =>
                   /\ event.latitude = master.latitude + sol.p[1]
                   /\ event.longitude = master.longitude + sol.p[2]
                   /\ event.depth = master.depth + sol.p[3]
             /\ sol.type = "cylindrical" =>
                   /\ event.latitude = master.latitude
                         + kilometers2degrees((sol.p[1] \div MetrePerKm) * CosDeg(sol.p[2]))
                   /\ event.longitude = master.longitude
                         + kilometers2degrees((sol.p[1] \div MetrePerKm) * SinDeg(sol.p[2]))
                   /\ event.depth = master.depth + sol.p[3] \div MetrePerKm

\* C10 witness: to_event returned for an evaluated cylindrical Solution with a
\* nonzero tmean and a slave whose origin time is not the master's.
C10_witness ==
    /\ lastop = <<"to_event", "slave">> /\ err = "none"
    /\ sol.type = "cylindrical"
    /\ sol.tmean # QInt(0)
    /\ Slave.origin # master.origin

\* The step is a finished call of op.
CallOf(op) == ncalls' = ncalls + 1 /\ lastop'[1] = op

\* C11: round trip of a geographic Solution.  try_solution leaves the type and
\* the offsets of the Solution as they were constructed, and the Event to_event
\* returns, less the master's latitude, longitude and depth, gives the offsets
\* (dlat, dlon, ddepth) back; so does the absolute location a ddrelocator
\* Solution is constructed with.
C11_round_trip ==
    [][/\ CallOf("try_solution") => sol'.type = sol.type /\ sol'.p = sol.p
       /\ (CallOf("to_event") /\ err' = "none" /\ sol.type = "geographic") =>
             /\ sol' = sol
             /\ <<event'.latitude - master.latitude,
                  event'.longitude - master.longitude,
                  event'.depth - master.depth>> = sol.p
       /\ \A i \in 1..Len(solutions') :
             <<solutions'[i].latitude - master.latitude,
               solutions'[i].longitude - master.longitude,
               solutions'[i].depth - master.depth>>
                = <<solutions'[i].dlat, solutions'[i].dlon, solutions'[i].ddepth>>]_vars

\* C11 witness: a geographic Solution with a nonzero depth offset was
\* constructed, evaluated and converted with to_event(master).
C11_witness ==
    /\ lastop = <<"to_event", "master">> /\ err = "none"
    /\ sol.type = "geographic" /\ sol.p[3] # 0 /\ sol.p[2] # 0
    /\ IsSet(sol.misfit)

\* The time shifts the property C12 is checked for.
Shifts == {QInt(k) : k \in -3..3}

\* obs with dt_pre computed for the Solution s.
Predicted(obs, s) == Eval(predict(master, Fresh(obs), s))

\* C12: when every observation has weight 1 and its dt is the predicted time of
\* the Solution plus one common shift c, the try_solution that just returned has
\* set tmean = c and misfit = 0.
C12_uniform_shift ==
    (api = "locator" /\ Returned("try_solution") /\ obslist # <<>>
        /\ \A i \in 1..Len(obslist) : obslist[i].weight = 1) =>
       \A pr \in {Predicted(obslist, sol)} :
          \A c \in Shifts :
             (\A i \in 1..Len(pr) : QAdd(pr[i].dt_pre, c) = QInt(pr[i].dt)) =>
                sol.tmean = c /\ sol.misfit = np_sqrt(QInt(0))

\* C12 witness: try_solution returned for two observations of weight 1 whose dt
\* is the predicted time plus the shift 1.
C12_witness ==
    /\ api = "locator" /\ Returned("try_solution") /\ Len(obslist) = 2
    /\ \A i \in 1..Len(obslist) : obslist[i].weight = 1
    /\ \A pr \in {Predicted(obslist, sol)} :
          \A i \in 1..Len(pr) : QAdd(pr[i].dt_pre, QInt(1)) = QInt(pr[i].dt)

\* The fields of an observation that the constructor sets.
FixedFields(o) ==
    <<o.station, o.latitude, o.longitude, o.distance, o.azimuth, o.phase, o.time,
      o.dtdd, o.dtdh, o.dt, o.weight>>

\* The distance from the trial location of the geographic Solution s to the
\* station of the observation o.
TrialDistance(s, o) ==
    distaz(master.latitude + s.p[1], master.longitude + s.p[2], o.latitude, o.longitude)

\* C13: no step changes obs.distance (or any other field the constructor set),
\* and a try_solution(..., keep_residual=True) of a geographic Solution leaves on
\* every observation dt_pre = dtdd * (distance from the trial location to the
\* station - obs.distance) + dtdh * ddepth and a residual that, with tmean added
\* back, is dt - dt_pre.
C13_geographic_prediction ==
    [][/\ Len(obslist') = Len(obslist)
       /\ \A i \in 1..Len(obslist) : FixedFields(obslist'[i]) = FixedFields(obslist[i])
       /\ (CallOf("try_solution") /\ err' = "none" /\ lastop'[2] = "keep"
             /\ sol.type = "geographic") =>
             \A i \in 1..Len(obslist) :
                /\ obslist'[i].dt_pre =
                      QInt(obslist[i].dtdd
                              * (TrialDistance(sol, obslist[i]) - obslist[i].distance)
                           + obslist[i].dtdh * sol.p[3])
                /\ QAdd(obslist'[i].residual, sol'.tmean) =
                      QSub(QInt(obslist[i].dt), obslist'[i].dt_pre)]_vars

\* C13 witness: try_solution kept the residuals of a geographic Solution whose
\* trial location is at another distance from a station than the master is.
C13_witness ==
    /\ lastop = <<"try_solution", "keep">> /\ err = "none"
    /\ sol.type = "geographic"
    /\ \E i \in 1..Len(obslist) :
          /\ TrialDistance(sol, obslist[i]) # obslist[i].distance
          /\ obslist[i].dt_pre # Unset

\* The residuals dt - dt_pre of the observations pr.
Residuals(pr) == Eval([i \in 1..Len(pr) |-> QSub(QInt(pr[i].dt), pr[i].dt_pre)])

\* The arithmetic mean of the non-empty list v.
Mean(v) == QDivInt(QSum(v), Len(v))

\* (x - a)^2
SquaredDeviation(x, a) == QMul(QSub(x, a), QSub(x, a))

\* C14: when every weight is 1, the try_solution that just returned has set tmean
\* to the arithmetic mean of the residuals and misfit to the square root of the
\* arithmetic mean of the squared (residual - tmean).
C14_unweighted_when_all_one ==
    (api = "locator" /\ Returned("try_solution") /\ obslist # <<>>
        /\ \A i \in 1..Len(obslist) : obslist[i].weight = 1) =>
       \A r \in {Residuals(Predicted(obslist, sol))} :
          /\ sol.tmean = Mean(r)
          /\ sol.misfit[1] = "sqrt"
          /\ <<"q", sol.misfit[2], sol.misfit[3]>> =
                Mean(Eval([i \in 1..Len(r) |-> SquaredDeviation(r[i], Mean(r))]))

\* C14 witness: try_solution returned for two observations of weight 1 with a
\* nonzero tmean and a nonzero misfit.
C14_witness ==
    /\ api = "locator" /\ Returned("try_solution") /\ Len(obslist) = 2
    /\ \A i \in 1..Len(obslist) : obslist[i].weight = 1
    /\ sol.tmean # QInt(0)
    /\ QLess(np_sqrt(QInt(0)), sol.misfit)

\* gridsearch has evaluated a Solution and the list still holds its residuals.
Evaluated ==
    /\ solutions # <<>>
    /\ pc = "gridsearch" \/ lastop[1] \in {"gridsearch", "find_best_solution"}

\* The observation o holds residual = dt - dt_pre - tmean.
HoldsCorrected(o, tmean) ==
    o.residual = QSub(QSub(QInt(o.dt), o.dt_pre), tmean)

\* C15: after a try_solution(..., keep_residual=True) that returned, and after
\* every ddrelocator.try_solution, every observation of the list, whatever its
\* weight or use flag, holds the dt_pre of the Solution evaluated and
\* residual = dt - dt_pre - tmean.
C15_residuals_retained ==
    /\ (lastop = <<"try_solution", "keep">> /\ err = "none") =>
          \A pr \in {Predicted(obslist, sol)} :
             \A i \in 1..Len(obslist) :
                /\ obslist[i].dt_pre = pr[i].dt_pre
                /\ HoldsCorrected(obslist[i], sol.tmean)
    /\ Evaluated =>
          \A pr \in {ddrelocator_residuals(Fresh(obslist), Rebuilt(LastSolution))} :
             \A i \in 1..Len(obslist) :
                /\ obslist[i].dt_pre = pr[i].dt_pre
                /\ HoldsCorrected(obslist[i], LastSolution.tmean)

\* C15 witness: gridsearch evaluated a Solution with a nonzero tmean on a list
\* that holds an observation with use = 0 next to one with use = 1.
C15_witness ==
    /\ Evaluated
    /\ ~IsNaN(LastSolution.tmean) /\ LastSolution.tmean # QInt(0)
    /\ \E i, j \in 1..Len(obslist) :
          /\ obslist[i].weight = 0 /\ obslist[j].weight = 1
          /\ HoldsCorrected(obslist[i], LastSolution.tmean)

\* x is a real number >= 0.
NonNegative(x) == QLeq(np_sqrt(QInt(0)), x)

\* C16: every Solution that has a misfit has a real misfit >= 0: the caller's
\* Solution, the Solutions gridsearch built and the entries of Jout.
C16_misfit_nonnegative ==
    /\ IsSet(sol.misfit) => NonNegative(sol.misfit)
    /\ \A i \in 1..Len(solutions) : NonNegative(solutions[i].misfit)
    /\ \A k \in 1..Len(Jout) : NonNegative(Jout[k])

\* C17: no observation with a negative weight exists; none is passed into the
\* weighted mean and RMS of a try_solution that returns.
C17_weight_nonnegative ==
    (api = "locator" /\ Returned("try_solution")) =>
       \A i \in 1..Len(obslist) : obslist[i].weight >= 0

\* C18: a sweep of find_solution only reads the observation records: a call
\* that returns leaves every field of every observation as it found it.
C18_sweep_reads_observations_only ==
    [][CallOf("find_solution") /\ err' = "none" => obslist' = obslist]_vars

\* The misfit of the k-th grid point of the sweep, evaluated alone in the
\* caller's process, and the whole sweep run there with ncores = 1.
SerialMisfit(k) ==
    try_solution_wrapper(evals[k], master, obslist, sweep.type).misfit
SerialSweep ==
    brute_map(1, GridPoints(sweep), master, obslist, [sweep EXCEPT !.ncores = 1], <<>>)

\* Worker w is inside try_solution: it has written dt_pre on its records and
\* has not deleted it yet.
InsideTrySolution(w) == pool.worker[w].pc \in {"residual", "average", "cleanup"}

\* C19: with worker processes, under every interleaving, every misfit a worker
\* has delivered is the misfit the serial evaluation of its grid point gives,
\* the returned Jout is the Jout of the serial sweep, and no worker fails on a
\* dt_pre or residual that is missing from its records.
C19_parallel_equals_serial ==
    /\ pool.err # "AttributeError"
    /\ pc = "pool" =>
          \A k \in 1..Len(Jout) : IsSet(Jout[k]) => Jout[k] = SerialMisfit(k)
    /\ (Returned("find_solution") /\ sweep.ncores # 1) => Jout = SerialSweep.Jout

\* Two workers are inside try_solution at once, on different grid points of a
\* list of observations, after a misfit was delivered, and the sweep has two
\* different misfits.
C19_witness ==
    /\ pc = "pool"
    /\ \E v, w \in Workers :
          /\ v # w
          /\ InsideTrySolution(v)
          /\ InsideTrySolution(w)
          /\ pool.worker[v].k # pool.worker[w].k
          /\ pool.worker[v].sol.misfit # pool.worker[w].sol.misfit
          /\ IsSet(pool.worker[v].sol.misfit)
          /\ IsSet(pool.worker[w].sol.misfit)
    /\ \E k \in 1..Len(Jout) : IsSet(Jout[k])
    /\ Len(obslist) > 0

\* Every observation has weight (use flag) 0 or 1 and at least one has 1.
ZeroOneWeights(obs) ==
    /\ \A i \in 1..Len(obs) : obs[i].weight \in {0, 1}
    /\ \E i \in 1..Len(obs) : obs[i].weight = 1

\* What the use-flag evaluator and the weight evaluator (geographic, with
\* keep_residual = True) make of the offsets dlat, dlon, ddepth from the master
\* and the observations obs.
UseFlagEvaluation(obs, dlat, dlon, ddepth) ==
    Eval(ddrelocator_try_solution(Fresh(obs),
                                  ddrelocator_Solution(dlat, dlon, ddepth, master)))
WeightEvaluation(obs, dlat, dlon, ddepth) ==
    Eval(try_solution(master, Fresh(obs),
                      Solution(<<dlat, dlon, ddepth>>, "geographic").sol, TRUE))

\* C20: with weight = use in {0, 1} and at least one observation used, what a
\* returned locator.try_solution(keep_residual = True) left in the Solution and
\* on the observations is what ddrelocator.try_solution gives for the same
\* master, offsets and observations; and what a step of gridsearch left is what
\* locator.try_solution gives: the same tmean, misfit, dt_pre and residuals.
C20_evaluators_agree ==
    /\ (/\ api = "locator"
        /\ Returned("try_solution")
        /\ lastop[2] = "keep"
        /\ sol.type = "geographic"
        /\ ZeroOneWeights(obslist)) =>
          \E r \in {UseFlagEvaluation(obslist, sol.p[1], sol.p[2], sol.p[3])} :
             /\ r.sol.tmean = sol.tmean
             /\ r.sol.misfit = sol.misfit
             /\ r.obslist = obslist
    /\ (/\ api = "ddrelocator"
        /\ Len(solutions) > 0
        /\ ZeroOneWeights(obslist)) =>
          \E r \in {WeightEvaluation(obslist, LastSolution.dlat, LastSolution.dlon,
                                     LastSolution.ddepth)} :
             /\ r.err = "none"
             /\ r.sol.tmean = LastSolution.tmean
             /\ r.sol.misfit = LastSolution.misfit
             /\ r.obslist = obslist

\* locator.try_solution(keep_residual = True) returned for a geographic
\* Solution over one used and one unused observation whose residuals differ.
C20_witness ==
    /\ api = "locator"
    /\ Returned("try_solution")
    /\ lastop[2] = "keep"
    /\ sol.type = "geographic"
    /\ ZeroOneWeights(obslist)
    /\ \E i, j \in 1..Len(obslist) :
          /\ obslist[i].weight = 1
          /\ obslist[j].weight = 0
          /\ obslist[i].residual # obslist[j].residual

\* The geographic offsets (dlat, dlon, ddepth in km) of a cylindrical Solution,
\* as to_event converts them: the Event it gives, minus the master.
Converted(s) ==
    LET e == to_event([s EXCEPT !.tmean = QInt(0)], master, NoEvent).event
    IN  <<e.latitude - master.latitude, e.longitude - master.longitude,
          e.depth - master.depth>>

\* locator.try_solution of a new geographic Solution with offsets p on the
\* observations as first built.
GeographicEvaluation(obs, p, keep_residual) ==
    Eval(try_solution(master, Fresh(obs), Solution(p, "geographic").sol, keep_residual))

PureDepth(h) ==
    sol.type = "cylindrical" /\ sol.p[1] = 0 /\ sol.p[3] = MetrePerKm * h

\* C22: a cylindrical Solution with ddist = 0 and ddepth = 1000 h metres gets
\* from try_solution the dt_pre, residuals, tmean and misfit of the geographic
\* Solution (0, 0, h), and from to_event the depth master.depth + h, which is
\* the depth to_event gives for the geographic Solution.
C22_depth_units_agree ==
    \A h \in DepthOffsets :
       /\ (Returned("try_solution") /\ lastop[2] = "keep" /\ PureDepth(h)) =>
             \E g \in {GeographicEvaluation(obslist, <<0, 0, h>>, TRUE)} :
                /\ g.sol.tmean = sol.tmean
                /\ g.sol.misfit = sol.misfit
                /\ g.obslist = obslist
       /\ (Returned("to_event") /\ PureDepth(h)) =>
             /\ event.depth = master.depth + h
             /\ event.depth =
                  to_event([sol EXCEPT !.type = "geographic", !.p = <<0, 0, h>>],
                           master, NoEvent).event.depth

\* to_event returned for an evaluated cylindrical Solution with ddist = 0 and a
\* depth offset that is not zero, over observations that hold a predicted time
\* that is not zero.
C22_witness ==
    /\ Returned("to_event")
    /\ \E h \in DepthOffsets \ {0} : PureDepth(h)
    /\ \E i \in 1..Len(obslist) : obslist[i].dt_pre \notin {Unset, QInt(0)}

\* s backwards.
Reverse(s) == Eval([i \in 1..Len(s) |-> s[Len(s) + 1 - i]])

\* The orders in which the three sequences can be nested: nest[1] is the
\* outermost of the axes 1 (ddeps), 2 (dlats), 3 (dlons).
Nestings == {nest \in [1..3 -> 1..3] : \A i, j \in 1..3 : i # j => nest[i] # nest[j]}

\* The grid points of the sweep, as (ddepth, dlat, dlon), in the order a search
\* enumerates them that nests the sequences as nest says and lists the
\* candidates of axis a backwards when back[a].
Enumeration(nest, back) ==
    LET axis == Eval([a \in 1..3 |-> IF back[a] THEN Reverse(sweep.ranges[a])
                                    ELSE sweep.ranges[a]])
        prod == itertools_product(axis[nest[1]], axis[nest[2]], axis[nest[3]])
        inner == Eval([a \in 1..3 |-> CHOOSE i \in 1..3 : nest[i] = a])
    IN  Eval([k \in 1..Len(prod) |->
                <<prod[k][inner[1]], prod[k][inner[2]], prod[k][inner[3]]>>])

EnumerationOrders ==
    {Enumeration(nest, back) : nest \in Nestings, back \in [1..3 -> BOOLEAN]}

\* The Solution gridsearch builds and evaluates at each combination.
EvaluatedAt ==
    Eval([c \in Combinations |-> gridsearch_body(master, obslist, c).sol])

\* What find_best_solution selects from the list of a search that enumerates
\* the grid points in the given order.
BestIn(order) ==
    EvaluatedAt[order[np_argmin(Eval([k \in 1..Len(order) |->
                                        EvaluatedAt[order[k]].misfit]))]]

Offsets(s) == <<s.ddepth, s.dlat, s.dlon>>

\* Exactly one Solution of the list has the minimum misfit.
UniqueMinimum ==
    \E i \in 1..Len(Misfits) :
       /\ IsMinimum(Misfits[i], Misfits)
       /\ \A j \in 1..Len(Misfits) : j # i => Misfits[j] # Misfits[i]

\* C23 as stated, for lists without a NaN misfit: whatever the order in which
\* the grid points are enumerated, the best Solution has the same offsets and
\* the same misfit, ties included.
C23_order_never_matters ==
    (Returned("find_best_solution") /\ \A i \in 1..Len(Misfits) : ~IsNaN(Misfits[i])) =>
       \A order \in EnumerationOrders :
          /\ Offsets(BestIn(order)) = Offsets(best[1])
          /\ BestIn(order).misfit = best[1].misfit

\* C23, amended: whatever the order of enumeration, the best Solution has the
\* same misfit, and the same offsets when one grid point alone has the minimum
\* misfit.
C23_order_matters_only_in_ties ==
    Returned("find_best_solution") =>
       \A order \in EnumerationOrders :
          /\ BestIn(order).misfit = best[1].misfit
          /\ UniqueMinimum => Offsets(BestIn(order)) = Offsets(best[1])

\* find_best_solution returned the only Solution with the minimum misfit, which
\* was not the first one enumerated.
C23_witness ==
    /\ Returned("find_best_solution")
    /\ UniqueMinimum
    /\ Len(solutions) > 1
    /\ best[1] # solutions[1]

\* The exception the evaluation of grid point c raises, or "none": for
\* find_solution, evaluated alone on the observations as first built; for
\* gridsearch, the check gps2dist_azimuth makes for the first observation.
PointError(sw, c) ==
    IF sw.driver = "find_solution"
    THEN try_solution_wrapper(c, master, Fresh(obslist), sw.type).err
    ELSE IF Len(obslist) > 0 /\ distaz_raises(master.latitude + c[2])
    THEN "ValueError" ELSE "none"

\* The exception of the first grid point, in enumeration order, whose
\* evaluation raises, or "none".
FirstError(sw) ==
    LET points == GridPoints(sw)
        failing == {k \in 1..Len(points) : PointError(sw, points[k]) # "none"}
    IN  IF failing = {} THEN "none"
        ELSE PointError(sw, points[CHOOSE k \in failing : \A l \in failing : k <= l])

\* The exceptions the grid points of the sweep raise.
PointErrors(sw) ==
    {PointError(sw, GridPoints(sw)[k]) : k \in 1..Len(GridPoints(sw))} \ {"none"}

\* C24: a sweep in which the evaluation of a grid point raises ends with that
\* exception and gives the caller nothing.  find_solution: the call raises the
\* first failing point's exception (with workers: the exception of one of the
\* failing points), no Jout comes back and the caller's Solution is not
\* replaced.  gridsearch: the step that evaluates a failing
\* point ends the search with the exception and without a list; every other
\* step evaluates the next point and goes on; a search that returned a list
\* had no failing point, and find_best_solution never follows a failed search.
C24_error_aborts_sweep ==
    [][/\ (CallOf("find_solution") /\ FirstError(sweep') # "none") =>
             /\ IF sweep'.ncores = 1
                THEN err' = FirstError(sweep')
                ELSE err' \in PointErrors(sweep')
             /\ Jout' = <<>>
             /\ sol' = sol
       /\ (pc = "gridsearch" /\ Len(evals') > Len(evals)) =>
             IF PointError(sweep, evals'[Len(evals')]) # "none"
             THEN /\ pc' = "idle"
                  /\ err' = PointError(sweep, evals'[Len(evals')])
                  /\ solutions' = <<>>
             ELSE /\ pc' = "gridsearch"
                  /\ Len(solutions') = Len(solutions) + 1
       /\ (pc = "gridsearch" /\ pc' = "idle" /\ err' = "none") =>
             FirstError(sweep) = "none"
       /\ best' # best => (pc = "idle" /\ err = "none")]_vars

\* find_solution raised the exception of its second grid point, after the
\* first was evaluated; the caller's Solution is the one an earlier sweep
\* returned.
C24_witness ==
    /\ lastop[1] = "find_solution"
    /\ err = "ValueError"
    /\ Len(evals) > 1
    /\ PointError(sweep, evals[1]) = "none"
    /\ sol # NoSol

\* The Solution s as constructed: without the fields an evaluation writes.
Unevaluated(s) == [s EXCEPT !.tmean = Unset, !.misfit = Unset]

\* The fields of a ddrelocator Solution that its constructor sets.
ConstructedFields(s) ==
    <<s.dlat, s.dlon, s.ddepth, s.latitude, s.longitude, s.depth>>

\* C25: a call of try_solution changes nothing of the Solution but tmean and
\* misfit, which after a call that returned are the values of this call,
\* whatever an earlier evaluation had left there; it changes neither the master
\* nor a field of an observation that the constructor set.  A step of
\* gridsearch appends a Solution that has the offsets and the location it was
\* constructed with, and tmean and misfit.
C25_try_solution_frame ==
    [][/\ CallOf("try_solution") =>
             /\ Unevaluated(sol') = Unevaluated(sol)
             /\ master' = master
             /\ Len(obslist') = Len(obslist)
             /\ \A i \in 1..Len(obslist) :
                   FixedFields(obslist'[i]) = FixedFields(obslist[i])
             /\ IF err' = "none"
                THEN /\ IsSet(sol'.tmean) /\ IsSet(sol'.misfit)
                     /\ sol' = try_solution(master, Fresh(obslist), Unevaluated(sol),
                                            FALSE).sol
                ELSE sol' = sol
       /\ (pc = "gridsearch" /\ Len(solutions') > Len(solutions)) =>
             /\ SubSeq(solutions', 1, Len(solutions)) = solutions
             /\ ConstructedFields(solutions'[Len(solutions')]) =
                   ConstructedFields(ddrelocator_Solution(
                      evals'[Len(evals')][2], evals'[Len(evals')][3],
                      evals'[Len(evals')][1], master))
             /\ IsSet(solutions'[Len(solutions')].tmean)
             /\ IsSet(solutions'[Len(solutions')].misfit)
             /\ master' = master
             /\ Len(obslist') = Len(obslist)
             /\ \A i \in 1..Len(obslist) :
                   FixedFields(obslist'[i]) = FixedFields(obslist[i])]_vars

\* try_solution returned for a cylindrical Solution as the last call of a
\* session, with a misfit that is not zero, and removed the transient fields.
C25_witness ==
    /\ api = "locator"
    /\ Returned("try_solution")
    /\ lastop[2] = "discard"
    /\ ncalls = MaxCalls
    /\ sol.type = "cylindrical"
    /\ sol.misfit # np_sqrt(QInt(0))
    /\ Len(obslist) = MaxObs

\* C26: the Solution find_solution returns has the parameters of one of the
\* evaluated grid points, each inside its search range; the Jout entry of that
\* grid point is less than or equal to every entry of Jout; and Jout has one
\* entry per grid point, as many as the product of the three point counts.
C26_best_is_grid_minimum ==
    Returned("find_solution") =>
       /\ \E k \in 1..Len(evals) : evals[k] = sol.p
       /\ \A a \in 1..3 :
             sweep.ranges[a][1] <= sol.p[a] /\ sol.p[a] < sweep.ranges[a][2]
       /\ IsMinimum(Jout[ReturnedIndex], Jout)
       /\ Len(Jout) = Len(evals)
       /\ Len(Jout) = Len(Axes(sweep)[1]) * Len(Axes(sweep)[2]) * Len(Axes(sweep)[3])

\* C26 where Jout holds no NaN.
C26_without_nan ==
    (\A k \in 1..Len(Jout) : ~IsNaN(Jout[k])) => C26_best_is_grid_minimum

\* C27, for lists of at least one observation: a list written by dump_obslist
\* is read back by read_obslist as the same list, whatever the session did
\* before: a read_obslist that follows the dump_obslist of the current list
\* returns, and returns that list.
C27_dump_read_round_trip ==
    [][(lastop[1] = "dump_obslist" /\ lastop'[1] = "read_obslist"
          /\ Len(obslist) > 0) =>
          /\ err' = "none"
          /\ obslist' = obslist]_vars

\* The observation o has the attributes dt_pre and residual.
HasTransient(o) == IsSet(o.dt_pre) /\ IsSet(o.residual)
HasNoTransient(o) == ~IsSet(o.dt_pre) /\ ~IsSet(o.residual)

\* C28: when locator.try_solution has returned, every observation holds dt_pre
\* and residual if the call had keep_residual = True and holds neither if it
\* had keep_residual = False, whatever earlier calls left on the observations.
C28_transient_iff_kept ==
    (api = "locator" /\ Returned("try_solution")) =>
       \A i \in 1..Len(obslist) :
          IF lastop[2] = "keep" THEN HasTransient(obslist[i])
          ELSE HasNoTransient(obslist[i])

\* try_solution(keep_residual = False) returned and left no dt_pre or residual
\* on observations that held them before: the file dump_obslist wrote earlier
\* in the session has their two columns.
C28_witness ==
    /\ Returned("try_solution")
    /\ lastop[2] = "discard"
    /\ Len(obslist) > 0
    /\ Len(file.rows) = Len(obslist)
    /\ \E c \in 1..Len(file.header) : file.header[c] = "residual"
    /\ \A i \in 1..Len(obslist) : HasNoTransient(obslist[i])

\* C29: a locator.try_solution that raises because the weights sum to zero
\* leaves the Solution and the observations as they were before the call.
C29_failure_leaves_state ==
    [][(CallOf("try_solution") /\ err' = "ZeroDivisionError") =>
          /\ sol' = sol
          /\ obslist' = obslist]_vars

\* find_solution has just returned a Solution to the caller.
SweepReturned == Returned("find_solution")

\* C30: in find_solution followed by try_solution(keep_residual = True) on the
\* returned Solution and the same list, the evaluation sets sol.misfit to the
\* minimum entry of the Jout the sweep returned; to_event called on the returned
\* Solution before that evaluation fails, and a to_event that returns finds
\* sol.tmean set.
C30_workflow ==
    [][/\ (SweepReturned /\ CallOf("try_solution") /\ lastop'[2] = "keep") =>
             /\ err' = "none"
             /\ IsSet(sol'.tmean)
             /\ IsMinimum(sol'.misfit, Jout)
             /\ \E k \in 1..Len(Jout) : Jout[k] = sol'.misfit
       /\ (SweepReturned /\ CallOf("to_event")) => err' # "none"
       /\ (CallOf("to_event") /\ err' = "none") => IsSet(sol.tmean)]_vars

\* C30 for sweeps whose Jout holds no NaN.
C30_without_nan ==
    [][(\A k \in 1..Len(Jout) : ~IsNaN(Jout[k])) =>
          /\ (SweepReturned /\ CallOf("try_solution") /\ lastop'[2] = "keep") =>
                /\ err' = "none"
                /\ IsSet(sol'.tmean)
                /\ IsMinimum(sol'.misfit, Jout)
                /\ \E k \in 1..Len(Jout) : Jout[k] = sol'.misfit
          /\ (SweepReturned /\ CallOf("to_event")) => err' # "none"
          /\ (CallOf("to_event") /\ err' = "none") => IsSet(sol.tmean)]_vars

=============================================================================
